---- MODULE Spec2Model ----
(***************************************************************************)
(* withRetry, the retry helper of the feedback API routes                  *)
(* (src/unnamed/part_000 lines 85-110, the same text in                    *)
(* src/unnamed/part_001 lines 42-67).  Spec runs one invocation over      *)
(* every budget and failure value; SpecConcurrent interleaves two          *)
(* invocations on the single JavaScript thread.                            *)
(*                                                                         *)
(* An action is one run-to-completion piece of the async function: the     *)
(* code between two awaits.  The wrapped operation is the environment: it  *)
(* settles each invocation with a value or with a failure value.           *)
(***************************************************************************)
EXTENDS Integers, Sequences, FiniteSets, TLC

VARIABLES
    pc,          \* per invocation: "idle", "attempting", "delaying", "succeeded", "failed"
    maxRetries,  \* the maxRetries parameter of the invocation
    attempt,     \* the loop variable `attempt`
    lastError,   \* the local `lastError`
    returned,    \* the value withRetry resolved with
    thrown,      \* the value withRetry rejected with
    calls,       \* how many times operation() was invoked
    delays,      \* the setTimeout durations awaited, in order
    outcomes,    \* how each invocation of operation() settled, in order
    startedInDelay, \* history: the invocation was called while another one was
                    \* waiting in a delay that has not elapsed since
    request,     \* the HTTP request being served: method, route, body
    phase,       \* where its handler stands: "idle", "received", "calling",
                 \* "awaiting", "responded"
    response,    \* the NextResponse the handler returned
    handed,      \* the table and the `data` given to prisma.<table>.create
    store,       \* the rows of the two tables, in insertion order
    served,      \* how many requests have arrived
    rowsAtArrival,   \* history: the size of each table when the request arrived
    callsAtResponse, \* history: `calls` when the response was returned
    feedbacks,          \* AdminPage: the fetched service feedback
    filteredFeedbacks,  \* AdminPage: the list it displays
    loading,            \* AdminPage: the loading flag
    error,              \* AdminPage: << >> for null, or <<message>>
    filters,            \* AdminPage: the six filter strings
    uniqueServiceTypes, \* AdminPage: the service types of the fetched list
    mounted,            \* AdminPage: its mount effects have run
    inFlight,           \* AdminPage: calls of fetchFeedbacks not yet settled
    fetchesStarted,     \* AdminPage: calls of fetchFeedbacks so far
    effectPending,      \* AdminPage: feedbacks or filters changed, the filter
                        \* effect has not run yet
    timezone            \* AdminPage: the browser's offset from UTC, in hours

retryVars == <<pc, maxRetries, attempt, lastError, returned, thrown, calls, delays, outcomes>>

apiVars == <<request, phase, response, handed, store, served, rowsAtArrival,
             callsAtResponse>>

pageVars == <<feedbacks, filteredFeedbacks, loading, error, filters,
              uniqueServiceTypes, mounted, inFlight, fetchesStarted,
              effectPending, timezone>>

vars == <<retryVars, startedInDelay, apiVars, pageVars>>

----------------------------------------------------------------------------
(* Bounds and inputs *)

\* the invocations of withRetry: Spec runs Solo alone, SpecConcurrent both
Procs == {"A", "B"}

Solo == "A"

\* the largest maxRetries argument tried by Spec (0 is tried too)
MaxRetriesBound == 4

\* the largest maxRetries argument tried by SpecConcurrent
MaxConcurrentRetries == 3

DefaultMaxRetries == 3

BaseDelay == 1000

Budgets == (-1)..MaxRetriesBound

ConcurrentBudgets == 0..MaxConcurrentRetries

\* what a successful operation() produces
Values == {"row1", "row2"}

NoValue == "none"

----------------------------------------------------------------------------
(* Failure values.  kind "Error": an Error instance, whose message is a    *)
(* string.  kind "null": `throw null`.  kind "string": a thrown primitive  *)
(* string, whose text is kept in message although the value has no         *)
(* .message property.  kind "TypeError": the TypeError the runtime raises  *)
(* inside the catch block.  kind "undefined": the never-assigned           *)
(* lastError.                                                              *)

Err(m) == [kind |-> "Error", message |-> m]

Undefined == [kind |-> "undefined", message |-> ""]

ThrownNull == [kind |-> "null", message |-> ""]

ThrownString(s) == [kind |-> "string", message |-> s]

TypeErrorOf(what) == [kind |-> "TypeError", message |-> what]

\* messages holding one of the three substrings
TransientMessages ==
    { "Can't reach database server",
      "Connection terminated",
      "Connection refused",
      "P1001: Can't reach database server at db:5432" }

\* messages holding none of them: other text, another case, a part, nothing
OtherMessages ==
    { "invalid syntax",
      "connection refused",
      "Connection refuse",
      "" }

\* every failure value the operation raises in the model
Failures ==
    { Err(m) : m \in TransientMessages \cup OtherMessages }
        \cup { ThrownNull, ThrownString("Connection refused") }

\* the failure values raised under SpecConcurrent
ConcurrentFailures ==
    { Err("Connection refused"), Err("Connection terminated"),
      Err("P1001: Can't reach database server at db:5432"),
      Err("invalid syntax"), Err(""), ThrownNull }

Success(v) == [ok |-> TRUE, value |-> v, error |-> Undefined]

Failure(e) == [ok |-> FALSE, value |-> NoValue, error |-> e]

----------------------------------------------------------------------------
(* String.prototype.includes *)

\* startsWith in place of includes
IncludesAtStart(s, p) == Len(s) >= Len(p) /\ SubSeq(s, 1, Len(p)) = p

Includes(s, p) ==
    \E i \in 1..(Len(s) - Len(p) + 1) : SubSeq(s, i, i + Len(p) - 1) = p

\* reading e.message: a TypeError on null and undefined
MessageReadThrows(e) == e.kind \in {"null", "undefined"}

\* every failure value taken to have a string .message
HasMessageAlways(e) == TRUE

\* e.message is a string (undefined on a primitive string)
HasMessage(e) == e.kind \in {"Error", "TypeError"}

\* the three includes() tests of the catch block
IsConnectionError(e) ==
    \/ Includes(e.message, "Can't reach database server")
    \/ Includes(e.message, "Connection terminated")
    \/ Includes(e.message, "Connection refused")

\* the test one short: gives up with one attempt left
RetriesLeftOffByOne(a, m) == a + 1 < m

\* the test forgotten: a connection error is always retried
RetriesLeftAlways(a, m) == TRUE

\* `attempt < maxRetries`
RetriesLeft(a, m) == a < m

\* the loop entered once whatever the budget
LoopTestOneMore(a, m) == a <= m + 1

\* `attempt <= maxRetries`
LoopTest(a, m) == a <= m

\* the increment forgotten
NextAttemptStuck(a) == a

\* the increment doubled
NextAttemptSkip(a) == a + 2

\* `attempt++`
NextAttempt(a) == a + 1

\* the backoff its comment announces: exponential
BackoffExponential(a) == BaseDelay * 2 ^ (a - 1)

\* the same delay before every retry
BackoffConstant(a) == BaseDelay

\* `1000 * attempt`
Backoff(a) == BaseDelay * a

\* the catch block: retry after a delay, or throw (lastError, or the
\* TypeError that the evaluation of the condition raised)
Catch(a, m, e) ==
    IF ~RetriesLeft(a, m)
    THEN [next |-> "throw", error |-> e]
    ELSE IF MessageReadThrows(e)
    THEN [next |-> "throw",
          error |-> TypeErrorOf("Cannot read properties of null (reading 'message')")]
    ELSE IF ~HasMessage(e)
    THEN [next |-> "throw",
          error |-> TypeErrorOf("Cannot read properties of undefined (reading 'includes')")]
    ELSE IF IsConnectionError(e)
    THEN [next |-> "retry", error |-> e]
    ELSE [next |-> "throw", error |-> e]

----------------------------------------------------------------------------
(* Locals of an invocation *)

\* `attempt` kept at module level: one counter for every invocation
SetAttemptShared(i, a) == [j \in Procs |-> a]

SetAttempt(i, a) == [attempt EXCEPT ![i] = a]

SetLastError(i, e) == [lastError EXCEPT ![i] = e]

----------------------------------------------------------------------------
(* The state machine *)

\* a JSON object without a key
NoFields == [f \in {} |-> 0]

NoRequest == [method |-> "none", route |-> "none", kind |-> "none", body |-> NoFields]

NoResponse ==
    [status |-> 0, message |-> "", error |-> "", id |-> 0,
     uiFeedback |-> << >>, serviceFeedback |-> << >>]

NothingHanded == [table |-> "none", data |-> NoFields]

\* useState<string | null>(null)
NoError == << >>

FilterKeys ==
    { "search", "serviceType", "followUp", "dateFrom", "dateTo",
      "overallSatisfaction" }

\* the initial filters, and those clearFilters sets
NoFilters == [k \in FilterKeys |-> ""]

Init ==
    /\ pc = [i \in Procs |-> "idle"]
    /\ maxRetries = [i \in Procs |-> DefaultMaxRetries]
    /\ attempt = [i \in Procs |-> 0]
    /\ lastError = [i \in Procs |-> Undefined]
    /\ returned = [i \in Procs |-> NoValue]
    /\ thrown = [i \in Procs |-> Undefined]
    /\ calls = [i \in Procs |-> 0]
    /\ delays = [i \in Procs |-> << >>]
    /\ outcomes = [i \in Procs |-> << >>]
    /\ startedInDelay = [i \in Procs |-> FALSE]
    /\ request = NoRequest
    /\ phase = "idle"
    /\ response = NoResponse
    /\ handed = NothingHanded
    /\ store = [ui |-> << >>, service |-> << >>]
    /\ served = 0
    /\ rowsAtArrival = [ui |-> 0, service |-> 0]
    /\ callsAtResponse = [i \in Procs |-> 0]
    /\ feedbacks = << >>
    /\ filteredFeedbacks = << >>
    /\ loading = TRUE
    /\ error = NoError
    /\ filters = NoFilters
    /\ uniqueServiceTypes = {}
    /\ mounted = FALSE
    /\ inFlight = 0
    /\ fetchesStarted = 0
    /\ effectPending = FALSE
    /\ timezone = 0

\* the head of the for loop at attempt a with budget m: invoke operation(),
\* or leave the loop and `throw lastError!`
LoopHead(i, a, m) ==
    /\ attempt' = SetAttempt(i, a)
    /\ IF LoopTest(a, m)
       THEN /\ pc' = [pc EXCEPT ![i] = "attempting"]
            /\ calls' = [calls EXCEPT ![i] = @ + 1]
            /\ thrown' = thrown
       ELSE /\ pc' = [pc EXCEPT ![i] = "failed"]
            /\ calls' = calls
            /\ thrown' = [thrown EXCEPT ![i] = lastError[i]]

\* withRetry(operation, m) is called: runs to the first await
Call(i, m) ==
    /\ pc[i] = "idle"
    /\ maxRetries' = [maxRetries EXCEPT ![i] = m]
    /\ LoopHead(i, 1, m)
    /\ UNCHANGED <<lastError, returned, delays, outcomes>>

\* `await operation()` without the return: the loop goes on after a success
OperationResolvesNoReturn(i, v) ==
    /\ pc[i] = "attempting"
    /\ outcomes' = [outcomes EXCEPT ![i] = Append(@, Success(v))]
    /\ LoopHead(i, NextAttempt(attempt[i]), maxRetries[i])
    /\ UNCHANGED <<maxRetries, lastError, returned, delays>>

\* operation() resolves with v: `return await operation()`
OperationResolves(i, v) ==
    /\ pc[i] = "attempting"
    /\ outcomes' = [outcomes EXCEPT ![i] = Append(@, Success(v))]
    /\ pc' = [pc EXCEPT ![i] = "succeeded"]
    /\ returned' = [returned EXCEPT ![i] = v]
    /\ UNCHANGED <<maxRetries, attempt, lastError, thrown, calls, delays>>

\* operation() rejects with e: the catch block
OperationRejects(i, e) ==
    /\ pc[i] = "attempting"
    /\ outcomes' = [outcomes EXCEPT ![i] = Append(@, Failure(e))]
    /\ lastError' = SetLastError(i, e)
    /\ LET c == Catch(attempt[i], maxRetries[i], e)
       IN  IF c.next = "retry"
           THEN /\ pc' = [pc EXCEPT ![i] = "delaying"]
                /\ delays' = [delays EXCEPT ![i] = Append(@, Backoff(attempt[i]))]
                /\ thrown' = thrown
           ELSE /\ pc' = [pc EXCEPT ![i] = "failed"]
                /\ delays' = delays
                /\ thrown' = [thrown EXCEPT ![i] = c.error]
    /\ UNCHANGED <<maxRetries, attempt, returned, calls>>

\* the promise of the delay is never resolved: nothing follows the timer
DelayElapsesNeverResolved(i) ==
    /\ pc[i] = "delaying"
    /\ UNCHANGED <<pc, maxRetries, attempt, lastError, returned, thrown, calls,
                   delays, outcomes>>

\* the timer fires: `continue`, attempt++, the loop test, the next operation()
DelayElapses(i) ==
    /\ pc[i] = "delaying"
    /\ LoopHead(i, NextAttempt(attempt[i]), maxRetries[i])
    /\ UNCHANGED <<maxRetries, lastError, returned, delays, outcomes>>

\* one invocation, alone
Next ==
    /\ \/ \E m \in Budgets : Call(Solo, m)
       \/ \E v \in Values : OperationResolves(Solo, v)
       \/ \E e \in Failures : OperationRejects(Solo, e)
       \/ DelayElapses(Solo)
    /\ UNCHANGED <<startedInDelay, apiVars, pageVars>>

Spec == Init /\ [][Next]_vars

\* one invocation whose every attempt settles and whose every delay elapses
SpecLive ==
    /\ Init
    /\ [][Next]_vars
    /\ WF_vars(/\ \/ \E v \in Values : OperationResolves(Solo, v)
                  \/ \E e \in Failures : OperationRejects(Solo, e)
               /\ UNCHANGED <<startedInDelay, apiVars, pageVars>>)
    /\ WF_vars(DelayElapses(Solo) /\ UNCHANGED <<startedInDelay, apiVars, pageVars>>)

----------------------------------------------------------------------------
(* Two invocations on the one JavaScript thread.  A continuation of an     *)
(* invocation runs when no other invocation holds the thread; an           *)
(* invocation holds it only inside an action, and gives it up at           *)
(* `await operation()` (line 90) and at `await new Promise(... setTimeout  *)
(* ...)` (line 101).                                                       *)

\* the delay spins on the thread instead of awaiting a timer
SuspendedBusyWait(j) == pc[j] # "delaying"

\* invocation j does not hold the thread: it is not started, ended, or
\* suspended at one of its two awaits
Suspended(j) == pc[j] \in {"idle", "attempting", "delaying", "succeeded", "failed"}

ThreadFree(i) == \A j \in Procs \ {i} : Suspended(j)

ConcurrentCall(i, m) ==
    /\ ThreadFree(i)
    /\ Call(i, m)
    /\ startedInDelay' =
          [startedInDelay EXCEPT ![i] = \E k \in Procs \ {i} : pc[k] = "delaying"]
    /\ UNCHANGED <<apiVars, pageVars>>

ConcurrentResolves(i, v) ==
    /\ ThreadFree(i)
    /\ OperationResolves(i, v)
    /\ UNCHANGED <<startedInDelay, apiVars, pageVars>>

ConcurrentRejects(i, e) ==
    /\ ThreadFree(i)
    /\ OperationRejects(i, e)
    /\ UNCHANGED <<startedInDelay, apiVars, pageVars>>

ConcurrentDelayElapses(i) ==
    /\ ThreadFree(i)
    /\ DelayElapses(i)
    /\ startedInDelay' = [j \in Procs |-> j = i /\ startedInDelay[j]]
    /\ UNCHANGED <<apiVars, pageVars>>

\* two invocations, interleaved at their awaits
NextConcurrent ==
    \/ \E i \in Procs, m \in ConcurrentBudgets : ConcurrentCall(i, m)
    \/ \E i \in Procs, v \in Values : ConcurrentResolves(i, v)
    \/ \E i \in Procs, e \in ConcurrentFailures : ConcurrentRejects(i, e)
    \/ \E i \in Procs : ConcurrentDelayElapses(i)

SpecConcurrent == Init /\ [][NextConcurrent]_vars

----------------------------------------------------------------------------
(* Vocabulary of the properties *)

Done(i) == pc[i] \in {"succeeded", "failed"}

\* the outcome is a failure the contract calls transient: an error whose
\* message holds one of the three substrings
TransientOutcome(o) ==
    ~o.ok /\ o.error.kind = "Error" /\ o.error.message \in TransientMessages

\* the outcome is a failure the contract calls terminal: any other failure
TerminalOutcome(o) == ~o.ok /\ ~TransientOutcome(o)

\* the first n outcomes of invocation i are all transient failures
AllTransient(i, n) == \A j \in 1..n : TransientOutcome(outcomes[i][j])

LastOutcome(i) == outcomes[i][Len(outcomes[i])]

----------------------------------------------------------------------------
\* C1: with maxRetries >= 1, whatever the outcomes, the wrapped operation is
\* invoked at most maxRetries times.
C1_AtMostMaxRetries ==
    \A i \in Procs :
        (pc[i] # "idle" /\ maxRetries[i] >= 1) => calls[i] <= maxRetries[i]

\* the budget is used up: as many invocations as maxRetries, and more than one
C1_Witness ==
    \E i \in Procs :
        pc[i] = "failed" /\ maxRetries[i] >= 2 /\ calls[i] = maxRetries[i]

\* C2: when attempts 1..k-1 fail transiently and attempt k succeeds,
\* withRetry resolves with the value of attempt k after exactly k
\* invocations, and no invocation follows.
C2_SuccessAtK ==
    \A i \in Procs : \A k \in 1..Len(outcomes[i]) :
        (outcomes[i][k].ok /\ AllTransient(i, k - 1)) =>
            /\ pc[i] = "succeeded"
            /\ returned[i] = outcomes[i][k].value
            /\ calls[i] = k
            /\ Len(outcomes[i]) = k

\* a success on the third attempt, after two transient failures
C2_Witness ==
    \E i \in Procs :
        /\ pc[i] = "succeeded"
        /\ calls[i] = 3
        /\ maxRetries[i] > 3
        /\ returned[i] = "row2"

\* C3: when every attempt fails transiently, the operation is invoked
\* exactly maxRetries times and withRetry then rejects with the error of the
\* last attempt; before that it has not ended.
C3_Exhaustion ==
    \A i \in Procs :
        (Len(outcomes[i]) >= 1 /\ AllTransient(i, Len(outcomes[i]))) =>
            IF Len(outcomes[i]) = maxRetries[i]
            THEN /\ pc[i] = "failed"
                 /\ calls[i] = maxRetries[i]
                 /\ thrown[i] = LastOutcome(i).error
            ELSE /\ Len(outcomes[i]) < maxRetries[i]
                 /\ pc[i] \in {"delaying", "attempting"}

\* three transient failures out of three, the last one surfaced
C3_Witness ==
    \E i \in Procs :
        /\ pc[i] = "failed"
        /\ maxRetries[i] = 3
        /\ Len(outcomes[i]) = 3
        /\ AllTransient(i, 3)
        /\ thrown[i] = Err("Connection terminated")
        /\ outcomes[i][1].error # thrown[i]

\* C4: a terminal failure on attempt n ends the sequence there: n
\* invocations (one, and no delay, when n = 1), and withRetry rejects with
\* that terminal error.
C4_TerminalEndsSequence ==
    \A i \in Procs :
        (Len(outcomes[i]) >= 1 /\ TerminalOutcome(LastOutcome(i))) =>
            /\ pc[i] = "failed"
            /\ calls[i] = Len(outcomes[i])
            /\ thrown[i] = LastOutcome(i).error
            /\ (Len(outcomes[i]) = 1 => delays[i] = << >>)

\* C4, the part the code keeps: a terminal failure on attempt n ends the
\* sequence after n invocations, and no delay is waited for it
C4_TerminalStopsAttempts ==
    \A i \in Procs :
        (Len(outcomes[i]) >= 1 /\ TerminalOutcome(LastOutcome(i))) =>
            /\ pc[i] = "failed"
            /\ calls[i] = Len(outcomes[i])
            /\ Len(delays[i]) = Len(outcomes[i]) - 1

\* C5: whenever withRetry fails, it rejects with exactly the failure value
\* the last invocation of the operation raised.
C5_RejectsWithOriginal ==
    \A i \in Procs :
        (pc[i] = "failed" /\ calls[i] >= 1) => thrown[i] = LastOutcome(i).error

\* C5 restricted to failure values that are Error instances
C5_ErrorInstancesUnchanged ==
    \A i \in Procs :
        (pc[i] = "failed" /\ calls[i] >= 1 /\ LastOutcome(i).error.kind = "Error")
            => thrown[i] = LastOutcome(i).error

----------------------------------------------------------------------------
(* The state machine of the contract: Attempting(n), Succeeded, Failed.    *)
(* The delay belongs to the transition Attempting(n) -> Attempting(n+1).   *)

\* invocation i keeps its state in this step
Stays(i) ==
    /\ pc'[i] = pc[i]
    /\ attempt'[i] = attempt[i]
    /\ calls'[i] = calls[i]
    /\ outcomes'[i] = outcomes[i]
    /\ returned'[i] = returned[i]
    /\ thrown'[i] = thrown[i]

\* the step out of Attempting(n) that outcome o must cause
AttemptingStep(i, o) ==
    /\ outcomes'[i] = Append(outcomes[i], o)
    /\ calls'[i] = calls[i]
    /\ attempt'[i] = attempt[i]
    /\ o.ok => pc'[i] = "succeeded"
    /\ (TransientOutcome(o) /\ attempt[i] < maxRetries[i]) => pc'[i] = "delaying"
    /\ (TransientOutcome(o) /\ attempt[i] = maxRetries[i]) => pc'[i] = "failed"
    /\ TerminalOutcome(o) => pc'[i] = "failed"

\* the steps of invocation i after its start
SpecifiedStep(i) ==
    /\ pc[i] = "attempting" =>
          /\ 1 <= attempt[i] /\ attempt[i] <= maxRetries[i]
          /\ \/ Stays(i)
             \/ /\ Len(outcomes'[i]) = Len(outcomes[i]) + 1
                /\ AttemptingStep(i, outcomes'[i][Len(outcomes'[i])])
    /\ pc[i] = "delaying" =>
          \/ Stays(i)
          \/ /\ pc'[i] = "attempting"
             /\ attempt'[i] = attempt[i] + 1
             /\ calls'[i] = calls[i] + 1
             /\ outcomes'[i] = outcomes[i]
    /\ Done(i) => Stays(i)

\* the start: into Attempting(1), with the first invocation
StartsAttempting(i) ==
    pc[i] = "idle" =>
        \/ Stays(i)
        \/ pc'[i] = "attempting" /\ attempt'[i] = 1 /\ calls'[i] = 1

\* C6, as stated: every execution starts in Attempting(1) and every step is
\* a specified transition, Succeeded and Failed absorbing, the attempt
\* number going up by one at a time.
C6_EveryStepSpecified ==
    [][\A i \in Procs : StartsAttempting(i) /\ SpecifiedStep(i)]_vars

\* C6, amended: the same for every execution with maxRetries >= 1.
C6_EveryStepSpecifiedFromOne ==
    [][\A i \in Procs :
          /\ maxRetries'[i] >= 1 => StartsAttempting(i)
          /\ SpecifiedStep(i)]_vars

\* Failed reached from Attempting(3) = Attempting(max), through two delays
C6_Witness ==
    \E i \in Procs :
        /\ pc[i] = "failed"
        /\ attempt[i] = 3
        /\ maxRetries[i] = 3
        /\ Len(delays[i]) = 2
        /\ TransientOutcome(LastOutcome(i))

DelaysBetweenInvocations(i) ==
    /\ pc[i] = "attempting" => Len(delays[i]) = calls[i] - 1
    /\ pc[i] = "delaying" => Len(delays[i]) = calls[i]
    /\ pc[i] = "succeeded" => Len(delays[i]) = calls[i] - 1

\* C8, as stated: every completed execution has one delay fewer than
\* invocations, each delay between two consecutive invocations.
C8_DelaysAreCallsMinusOne ==
    \A i \in Procs :
        /\ DelaysBetweenInvocations(i)
        /\ pc[i] = "failed" => Len(delays[i]) = calls[i] - 1

\* C8, amended: the same for every completed execution that invoked the
\* operation at least once (maxRetries >= 1).
C8_DelaysAreCallsMinusOneFromOne ==
    \A i \in Procs :
        /\ DelaysBetweenInvocations(i)
        /\ (pc[i] = "failed" /\ maxRetries[i] >= 1) =>
              calls[i] >= 1 /\ Len(delays[i]) = calls[i] - 1

\* three invocations and two delays, the last failure not followed by one
C8_Witness ==
    \E i \in Procs :
        /\ pc[i] = "failed"
        /\ calls[i] = 3
        /\ Len(delays[i]) = 2
        /\ TransientOutcome(LastOutcome(i))

\* C9: a failure at attempt n < maxRetries is followed by another attempt
\* exactly when it is an error whose message holds one of the three
\* substrings, anywhere and in that case; any other failure ends the
\* sequence at attempt n.
C9_RetriedIffSubstring ==
    \A i \in Procs : \A n \in 1..Len(outcomes[i]) :
        (~outcomes[i][n].ok /\ n < maxRetries[i]) =>
            IF TransientOutcome(outcomes[i][n])
            THEN \/ n = Len(outcomes[i]) /\ pc[i] = "delaying"
                 \/ calls[i] > n
            ELSE /\ n = Len(outcomes[i])
                 /\ pc[i] = "failed"
                 /\ calls[i] = n

\* a message with the substring inside it was retried, then the same text in
\* another case was not, with an attempt left
C9_Witness ==
    \E i \in Procs :
        /\ maxRetries[i] = 3
        /\ pc[i] = "failed"
        /\ Len(outcomes[i]) = 2
        /\ outcomes[i][1].error = Err("P1001: Can't reach database server at db:5432")
        /\ outcomes[i][2].error = Err("connection refused")

----------------------------------------------------------------------------
(* One invocation run alone on a given sequence of outcomes *)

RECURSIVE AloneFrom(_, _, _, _, _, _)
\* at the loop head with attempt a, the next outcome os[k], the delays ds
\* waited so far and le in lastError
AloneFrom(m, os, a, k, ds, le) ==
    IF ~LoopTest(a, m)
    THEN [pc |-> "failed", returned |-> NoValue, thrown |-> le,
          calls |-> k - 1, delays |-> ds]
    ELSE IF k > Len(os)
    THEN [pc |-> "attempting", returned |-> NoValue, thrown |-> Undefined,
          calls |-> k, delays |-> ds]
    ELSE IF os[k].ok
    THEN [pc |-> "succeeded", returned |-> os[k].value, thrown |-> Undefined,
          calls |-> k, delays |-> ds]
    ELSE LET c == Catch(a, m, os[k].error)
         IN  IF c.next = "retry"
             THEN AloneFrom(m, os, NextAttempt(a), k + 1,
                            Append(ds, Backoff(a)), os[k].error)
             ELSE [pc |-> "failed", returned |-> NoValue, thrown |-> c.error,
                   calls |-> k, delays |-> ds]

RunAlone(m, os) == AloneFrom(m, os, 1, 1, << >>, Undefined)

\* invocation i stands where it would stand alone on its own outcomes
AsAlone(i) ==
    LET r == RunAlone(maxRetries[i], outcomes[i])
    IN  /\ delays[i] = r.delays
        /\ Done(i) <=> r.pc # "attempting"
        /\ Done(i) =>
              /\ pc[i] = r.pc
              /\ returned[i] = r.returned
              /\ thrown[i] = r.thrown
              /\ calls[i] = r.calls
        /\ pc[i] = "attempting" => calls[i] = r.calls
        /\ pc[i] = "delaying" => calls[i] = r.calls - 1

\* nothing of invocation j changes in this step
Untouched(j) ==
    /\ pc'[j] = pc[j]
    /\ maxRetries'[j] = maxRetries[j]
    /\ attempt'[j] = attempt[j]
    /\ lastError'[j] = lastError[j]
    /\ returned'[j] = returned[j]
    /\ thrown'[j] = thrown[j]
    /\ calls'[j] = calls[j]
    /\ delays'[j] = delays[j]
    /\ outcomes'[j] = outcomes[j]

\* C10: in every interleaving of two invocations, each one's result, number
\* of attempts and delays are those of its run alone on the same outcomes,
\* and a step of one invocation changes nothing of the other.
C10_Independent ==
    /\ [](\A i \in Procs : pc[i] # "idle" => AsAlone(i))
    /\ [][\E i \in Procs : \A j \in Procs \ {i} : Untouched(j)]_vars

\* A has succeeded after two delays while B, started meanwhile, is waiting
\* in its first delay
C10_Witness ==
    /\ pc["A"] = "succeeded"
    /\ delays["A"] = <<1000, 2000>>
    /\ pc["B"] = "delaying"
    /\ delays["B"] = <<1000>>
    /\ maxRetries["B"] = 2

----------------------------------------------------------------------------
\* C11: an invocation waiting in its backoff delay does not block the
\* others: while it is delaying, another invocation can be started, can have
\* its attempts settled and its own delays elapse, each such step leaving
\* the first one in its delay.
C11_DelayDoesNotBlock ==
    \A i \in Procs : \A j \in Procs \ {i} :
        pc[i] = "delaying" =>
            /\ pc[j] = "idle" =>
                  \A m \in ConcurrentBudgets :
                      ENABLED (ConcurrentCall(j, m) /\ pc'[i] = "delaying")
            /\ pc[j] = "attempting" =>
                  /\ \A v \in Values :
                        ENABLED (ConcurrentResolves(j, v) /\ pc'[i] = "delaying")
                  /\ \A e \in ConcurrentFailures :
                        ENABLED (ConcurrentRejects(j, e) /\ pc'[i] = "delaying")
            /\ pc[j] = "delaying" =>
                  ENABLED (ConcurrentDelayElapses(j) /\ pc'[i] = "delaying")

\* B was started while A was in a delay, made three attempts with two delays
\* of its own and succeeded, and A is still in that delay
C11_Witness ==
    /\ pc["A"] = "delaying"
    /\ startedInDelay["B"]
    /\ pc["B"] = "succeeded"
    /\ calls["B"] = 3

----------------------------------------------------------------------------
\* C15: when every attempt of the operation settles and every delay
\* elapses, every invocation of withRetry that was started reaches Succeeded
\* or Failed, whatever the outcomes.
C15_Terminates == \A i \in Procs : (pc[i] # "idle") ~> Done(i)

\* the longest execution has ended: four attempts out of four, three delays
C15_Witness ==
    \E i \in Procs :
        /\ Done(i)
        /\ maxRetries[i] = 4
        /\ calls[i] = 4
        /\ Len(delays[i]) = 3

----------------------------------------------------------------------------
(* The request bodies of the route handlers.  A body is a JSON object: a   *)
(* function from keys to JSON values, Absent at the keys it does not hold. *)
(* Numbers are integers and array elements are strings.                    *)

Absent == [t |-> "absent", s |-> "", n |-> 0, b |-> FALSE, a |-> << >>]

Null == [t |-> "null", s |-> "", n |-> 0, b |-> FALSE, a |-> << >>]

Str(x) == [t |-> "str", s |-> x, n |-> 0, b |-> FALSE, a |-> << >>]

Num(x) == [t |-> "num", s |-> "", n |-> x, b |-> FALSE, a |-> << >>]

Bool(x) == [t |-> "bool", s |-> "", n |-> 0, b |-> x, a |-> << >>]

Arr(x) == [t |-> "arr", s |-> "", n |-> 0, b |-> FALSE, a |-> x]

\* JavaScript truthiness, as `||` tests it
Truthy(j) ==
    CASE j.t = "str" -> j.s # ""
      [] j.t = "num" -> j.n # 0
      [] j.t = "bool" -> j.b
      [] j.t = "arr" -> TRUE
      [] OTHER -> FALSE

\* x alone, without `|| d`
OrElseKeep(j, d) == j

\* `x || d`
OrElse(j, d) == IF Truthy(j) THEN j ELSE d

----------------------------------------------------------------------------
(* The zod schemas.  A field is [type, optional, min, max, options,        *)
(* default]; max = NoMax when unbounded, default = Absent when none.       *)

NoMax == << >>

Max(n) == <<n>>

\* x <= the bound, when there is one
Within(x, hi) == hi = NoMax \/ x <= hi[1]

ZString(opt, lo, hi) ==
    [type |-> "string", optional |-> opt, min |-> lo, max |-> hi,
     options |-> {}, default |-> Absent]

ZEmailOrEmpty ==
    [type |-> "email", optional |-> TRUE, min |-> 0, max |-> NoMax,
     options |-> {}, default |-> Absent]

ZEnum(opts) ==
    [type |-> "enum", optional |-> TRUE, min |-> 0, max |-> NoMax,
     options |-> opts, default |-> Absent]

ZRatingFromZero(opt) ==
    [type |-> "number", optional |-> opt, min |-> 0, max |-> Max(5),
     options |-> {}, default |-> Absent]

ZRating(opt) ==
    [type |-> "number", optional |-> opt, min |-> 1, max |-> Max(5),
     options |-> {}, default |-> Absent]

ZStringArray(opt, lo) ==
    [type |-> "array", optional |-> opt, min |-> lo, max |-> NoMax,
     options |-> {}, default |-> Absent]

ZBooleanDefault(d) ==
    [type |-> "boolean", optional |-> TRUE, min |-> 0, max |-> NoMax,
     options |-> {}, default |-> Bool(d)]

UiOptionalStrings ==
    { "userName", "userRole", "pageUrl", "componentName", "browserInfo",
      "screenResolution", "stepsToReproduce", "expectedBehavior",
      "actualBehavior" }

UiRatings ==
    { "usabilityRating", "designRating", "performanceRating", "overallRating" }

DeviceTypes == { "DESKTOP", "MOBILE", "TABLET" }

FeedbackTypes ==
    { "BUG", "FEATURE_REQUEST", "IMPROVEMENT", "COMPLIMENT", "QUESTION",
      "ACCESSIBILITY", "PERFORMANCE", "DESIGN", "USABILITY", "OTHER" }

Severities == { "CRITICAL", "HIGH", "MEDIUM", "LOW" }

Priorities == { "URGENT", "HIGH", "MEDIUM", "LOW" }

UiFields ==
    UiOptionalStrings \cup UiRatings \cup
        { "userEmail", "deviceType", "feedbackType", "severity", "title",
          "description", "tags", "priority" }

feedbackSchema ==
    [f \in UiFields |->
        CASE f \in UiOptionalStrings -> ZString(TRUE, 0, NoMax)
          [] f \in UiRatings -> ZRating(TRUE)
          [] f = "userEmail" -> ZEmailOrEmpty
          [] f = "deviceType" -> ZEnum(DeviceTypes)
          [] f = "feedbackType" -> ZEnum(FeedbackTypes)
          [] f = "severity" -> ZEnum(Severities)
          [] f = "title" -> ZString(TRUE, 0, Max(100))
          [] f = "description" -> ZString(TRUE, 0, Max(1000))
          [] f = "tags" -> ZStringArray(TRUE, 0)
          [] f = "priority" -> ZEnum(Priorities)]

ServiceOptionalStrings ==
    { "customerName", "companyName", "contactInfo", "serviceTypeOther",
      "mostLiked", "overallExperience", "expectationsMet", "improvementAreas",
      "issuesExperienced", "wouldRecommend", "additionalServices",
      "futureExpectations", "serviceQualityRecommendations",
      "preferredContactMethod", "preferredContactOther" }

RatingFields ==
    { "easeOfOrdering", "orderProcessingAccuracy", "orderChannelKnowledge",
      "serviceTimeliness", "orderAccuracy", "productQuality",
      "quantityAccuracy", "staffProfessionalism", "responsiveness",
      "overallSatisfaction", "priceCompetitiveness", "stockAvailability",
      "technicalInstruction" }

ServiceFields ==
    ServiceOptionalStrings \cup RatingFields \cup
        { "serviceDate", "serviceType", "followUpRequested" }

serviceFeedbackSchema ==
    [f \in ServiceFields |->
        CASE f \in ServiceOptionalStrings -> ZString(TRUE, 0, NoMax)
          [] f \in RatingFields -> ZRating(FALSE)
          [] f = "serviceDate" -> ZString(FALSE, 1, NoMax)
          [] f = "serviceType" -> ZStringArray(FALSE, 1)
          [] f = "followUpRequested" -> ZBooleanDefault(FALSE)]

ZBoolean ==
    [type |-> "boolean", optional |-> FALSE, min |-> 0, max |-> NoMax,
     options |-> {}, default |-> Absent]

\* the schema of the service form: the server's, with followUpRequested
\* required
clientServiceFeedbackSchema ==
    [serviceFeedbackSchema EXCEPT !["followUpRequested"] = ZBoolean]

\* every key a body of the model may hold
BodyKeys == UiFields \cup ServiceFields \cup { "submissionDate" }

\* the shape zod's email check asks for, reduced to: text, "@", text, ".",
\* text
IsEmail(x) ==
    \E i \in 2..Len(x) : \E k \in (i + 2)..(Len(x) - 1) :
        /\ SubSeq(x, i, i) = "@"
        /\ SubSeq(x, k, k) = "."
        /\ \A q \in 1..Len(x) : q # i => SubSeq(x, q, q) # "@"

\* the value passes the field's checks
FieldOk(z, j) ==
    IF j.t = "absent"
    THEN z.optional
    ELSE CASE z.type = "string" ->
                /\ j.t = "str"
                /\ Len(j.s) >= z.min
                /\ Within(Len(j.s), z.max)
           [] z.type = "email" -> j.t = "str" /\ (j.s = "" \/ IsEmail(j.s))
           [] z.type = "enum" -> j.t = "str" /\ j.s \in z.options
           [] z.type = "number" -> j.t = "num" /\ z.min <= j.n /\ Within(j.n, z.max)
           [] z.type = "array" -> j.t = "arr" /\ Len(j.a) >= z.min
           [] z.type = "boolean" -> j.t = "bool"

\* a schema made .strict(): a key it does not know is an error
PassesStrict(schema, body) ==
    /\ \A f \in DOMAIN schema : FieldOk(schema[f], body[f])
    /\ \A f \in DOMAIN body \ DOMAIN schema : body[f].t = "absent"

\* schema.parse(body) does not throw a ZodError
Passes(schema, body) == \A f \in DOMAIN schema : FieldOk(schema[f], body[f])

\* what schema.parse(body) returns: the keys of the schema only, defaults
\* filled in
Parsed(schema, body) ==
    [f \in DOMAIN schema |->
        IF body[f].t = "absent" THEN schema[f].default ELSE body[f]]

\* `'serviceDate' in body && 'easeOfOrdering' in body`
IsServiceFeedbackEitherKey(body) ==
    body["serviceDate"].t # "absent" \/ body["easeOfOrdering"].t # "absent"

IsServiceFeedback(body) ==
    body["serviceDate"].t # "absent" /\ body["easeOfOrdering"].t # "absent"

\* the data object handed to prisma.serviceFeedback.create
ServiceCreateData(d) ==
    [f \in ServiceFields |->
        IF f \in ServiceOptionalStrings THEN OrElse(d[f], Null) ELSE d[f]]

\* the data object handed to prisma.uIFeedback.create
UiCreateData(d) ==
    [f \in UiFields |->
        CASE f = "feedbackType" -> OrElse(d[f], Str("OTHER"))
          [] f = "title" -> OrElse(d[f], Str("Untitled Feedback"))
          [] f = "description" -> OrElse(d[f], Str(""))
          [] f = "tags" -> OrElse(d[f], Arr(<< >>))
          [] OTHER -> OrElse(d[f], Null)]

----------------------------------------------------------------------------
(* The bodies posted in the model *)

RECURSIVE Repeat(_, _)
Repeat(x, n) ==
    IF n = 0 THEN ""
    ELSE LET half == Repeat(x, n \div 2)
         IN  IF n % 2 = 0 THEN half \o half ELSE half \o half \o x

EmptyBody == [f \in BodyKeys |-> Absent]

With(body, f, v) == [body EXCEPT ![f] = v]

\* what the service form sends: its untouched text inputs as "", and the
\* submissionDate it adds
ServiceFormBody ==
    [f \in BodyKeys |->
        CASE f = "customerName" -> Str("Abebe")
          [] f \in ServiceOptionalStrings \ {"customerName"} -> Str("")
          [] f \in RatingFields -> Num(4)
          [] f = "serviceDate" -> Str("2024-05-01")
          [] f = "serviceType" -> Arr(<<"fuel-delivery", "other">>)
          [] f = "followUpRequested" -> Bool(TRUE)
          [] f = "submissionDate" -> Str("2024-05-02T10:00:00.000Z")
          [] OTHER -> Absent]

\* a service body at the edges of the schema: ratings 1 and 5, a one-letter
\* date, one service type, no optional key
ServiceEdgeBody ==
    [f \in BodyKeys |->
        CASE f \in {"easeOfOrdering", "technicalInstruction"} -> Num(1)
          [] f \in RatingFields \ {"easeOfOrdering", "technicalInstruction"} -> Num(5)
          [] f = "serviceDate" -> Str("x")
          [] f = "serviceType" -> Arr(<<"lubricants">>)
          [] OTHER -> Absent]

UiFullBody ==
    [f \in BodyKeys |->
        CASE f = "userName" -> Str("Sara")
          [] f = "userEmail" -> Str("sara@example.com")
          [] f = "deviceType" -> Str("MOBILE")
          [] f = "feedbackType" -> Str("BUG")
          [] f = "severity" -> Str("HIGH")
          [] f = "title" -> Str(Repeat("t", 100))
          [] f = "description" -> Str("The submit button does nothing")
          [] f = "usabilityRating" -> Num(2)
          [] f = "overallRating" -> Num(5)
          [] f = "tags" -> Arr(<<"forms">>)
          [] OTHER -> Absent]

\* the object the service form posts for the values `data` it validated
OnSubmit(data, now) ==
    [f \in BodyKeys |->
        IF f \in DOMAIN data THEN data[f]
        ELSE IF f = "submissionDate" THEN Str(now)
        ELSE Absent]

\* the form as it is when only the required inputs were filled, with the
\* lowest and the highest rating and the follow-up box left unticked
FormValuesRequiredOnly ==
    [f \in ServiceFields |->
        CASE f \in ServiceOptionalStrings -> Str("")
          [] f = "easeOfOrdering" -> Num(1)
          [] f \in RatingFields \ {"easeOfOrdering"} -> Num(5)
          [] f = "serviceDate" -> Str("2024-05-01")
          [] f = "serviceType" -> Arr(<<"other">>)
          [] f = "followUpRequested" -> Bool(FALSE)]

ServiceFormRequiredOnlyBody ==
    OnSubmit(Parsed(clientServiceFeedbackSchema, FormValuesRequiredOnly),
             "2024-05-03T08:30:00.000Z")

\* bodies that pass the schema their route picks
ValidBodies ==
    { ServiceFormBody, ServiceFormRequiredOnlyBody, ServiceEdgeBody,
      UiFullBody, EmptyBody,
      With(EmptyBody, "serviceDate", Str("2024-05-01")),
      With(EmptyBody, "easeOfOrdering", Num(3)) }

\* service bodies (both keys present) that break one rule of the service
\* schema
InvalidServiceBodies ==
    { With(ServiceFormBody, f, Num(0)) : f \in RatingFields }
        \cup { With(ServiceFormBody, f, Num(6)) : f \in RatingFields }
        \cup { With(ServiceFormBody, f, Absent) : f \in RatingFields \ {"easeOfOrdering"} }
        \cup { With(ServiceFormBody, "easeOfOrdering", Str("4")),
               With(ServiceFormBody, "serviceDate", Str("")),
               With(ServiceFormBody, "serviceDate", Null),
               With(ServiceFormBody, "serviceType", Arr(<< >>)),
               With(ServiceFormBody, "serviceType", Absent),
               With(ServiceFormBody, "customerName", Null),
               With(ServiceFormBody, "followUpRequested", Str("yes")) }

\* bodies that break one rule of the UI schema
InvalidUiBodies ==
    { With(UiFullBody, "title", Str(Repeat("t", 101))),
      With(UiFullBody, "description", Str(Repeat("d", 1001))),
      With(UiFullBody, "userEmail", Str("sara.example.com")),
      With(UiFullBody, "deviceType", Str("WATCH")),
      With(UiFullBody, "overallRating", Num(6)),
      With(UiFullBody, "tags", Str("forms")),
      With(With(EmptyBody, "serviceDate", Str("2024-05-01")), "designRating", Num(0)) }

Bodies == ValidBodies \cup InvalidServiceBodies \cup InvalidUiBodies

\* the bodies posted to the UI route: UI bodies, and a service body, whose
\* keys that schema does not know
UiRouteBodies == { UiFullBody, ServiceFormBody } \cup InvalidUiBodies

Routes == { "combined", "ui" }

----------------------------------------------------------------------------
(* The route handlers.  Requests are served one after the other: a request *)
(* arrives when the invocations of withRetry of the one before have ended. *)
(* The POST handler uses invocation "A" for its create; the GET handler    *)
(* uses "A" for uIFeedback.findMany and "B" for serviceFeedback.findMany.  *)

MaxRequests == 2

\* what request.json() gives: an object, an array, or null / a number / a
\* string / a boolean
Requests ==
    { [method |-> "POST", route |-> "combined", kind |-> "object", body |-> b] :
          b \in Bodies }
      \cup { [method |-> "POST", route |-> "ui", kind |-> "object", body |-> b] :
                b \in UiRouteBodies }
      \cup { [method |-> "POST", route |-> r, kind |-> k, body |-> EmptyBody] :
                r \in Routes, k \in {"primitive", "array"} }
      \cup { [method |-> "GET", route |-> r, kind |-> "none", body |-> EmptyBody] :
                r \in Routes }

\* the failures of a store call, and whether the store applied the write
\* before the call failed: a connection that ends while the reply is awaited
\* can leave the row written
StoreFailures ==
    { Err("Connection terminated"),
      Err("Unique constraint failed on the fields: (id)") }

CreateFailures ==
    { <<e, FALSE>> : e \in StoreFailures }
        \cup { <<Err("Connection terminated"), TRUE>> }

RECURSIVE Reverse(_)
Reverse(s) == IF s = << >> THEN << >> ELSE Append(Reverse(Tail(s)), Head(s))

NextId == Len(store.ui) + Len(store.service) + 1

Row(data) == [id |-> NextId, createdAt |-> NextId, data |-> data]

\* prisma.<table>.create({ data })
Insert(table, data) == [store EXCEPT ![table] = Append(@, Row(data))]

\* the rows as they were inserted, without orderBy
FindManyOldestFirst(table) == store[table]

\* prisma.<table>.findMany({ orderBy: { createdAt: 'desc' } })
FindMany(table) == Reverse(store[table])

\* the argument the handlers pass for maxRetries: none
NoArgument == Undefined

BudgetOneMore(arg) == IF arg = NoArgument THEN DefaultMaxRetries + 1 ELSE arg

\* the default parameter `maxRetries = 3`
Budget(arg) == IF arg = NoArgument THEN DefaultMaxRetries ELSE arg

ValidateSkipped(req) ==
    [result |-> "valid", table |-> "ui",
     data |-> UiCreateData(Parsed(feedbackSchema, req.body))]

\* the part of POST before withRetry: the `in` tests and schema.parse(body)
Validate(req) ==
    IF req.route = "combined" /\ req.kind = "primitive"
    THEN [result |-> "throws", table |-> "none", data |-> NoFields]
    ELSE IF req.kind # "object"
    THEN [result |-> "invalid", table |-> "none", data |-> NoFields]
    ELSE IF req.route = "combined" /\ IsServiceFeedback(req.body)
    THEN IF Passes(serviceFeedbackSchema, req.body)
         THEN [result |-> "valid", table |-> "service",
               data |-> ServiceCreateData(Parsed(serviceFeedbackSchema, req.body))]
         ELSE [result |-> "invalid", table |-> "none", data |-> NoFields]
    ELSE IF Passes(feedbackSchema, req.body)
         THEN [result |-> "valid", table |-> "ui",
               data |-> UiCreateData(Parsed(feedbackSchema, req.body))]
         ELSE [result |-> "invalid", table |-> "none", data |-> NoFields]

ValidationFailed == [NoResponse EXCEPT !.status = 400, !.error = "Validation failed"]

InternalServerError == [NoResponse EXCEPT !.status = 500, !.error = "Internal server error"]

ErrorResponseWithText(e) == [InternalServerError EXCEPT !.error = e.message]

\* the catch block, for an error that is not a ZodError
ErrorResponse(e) == InternalServerError

Created(table, row) ==
    [NoResponse EXCEPT !.status = 201, !.id = row.id,
        !.message = IF table = "service"
                    THEN "Service feedback submitted successfully"
                    ELSE "Feedback submitted successfully"]

\* the invocations of withRetry a request makes
Used(req) ==
    IF req.method = "GET" /\ req.route = "combined" THEN {"A", "B"} ELSE {"A"}

TableOf(i) == IF i = "A" THEN "ui" ELSE "service"

SequenceRunsUntilResponse(ph) == ph = "awaiting"

\* a started invocation goes on whether or not the handler has responded
SequenceRuns(ph) == ph \in {"awaiting", "responded"}

\* a request reaches its handler; the handler's invocations of withRetry are
\* new activations
Arrive(req) ==
    /\ phase \in {"idle", "responded"}
    /\ \A i \in Procs : pc[i] \in {"idle", "succeeded", "failed"}
    /\ served < MaxRequests
    /\ served' = served + 1
    /\ request' = req
    /\ phase' = "received"
    /\ response' = NoResponse
    /\ handed' = NothingHanded
    /\ rowsAtArrival' = [ui |-> Len(store.ui), service |-> Len(store.service)]
    /\ callsAtResponse' = [i \in Procs |-> 0]
    /\ pc' = [i \in Procs |-> "idle"]
    /\ maxRetries' = [i \in Procs |-> DefaultMaxRetries]
    /\ attempt' = [i \in Procs |-> 0]
    /\ lastError' = [i \in Procs |-> Undefined]
    /\ returned' = [i \in Procs |-> NoValue]
    /\ thrown' = [i \in Procs |-> Undefined]
    /\ calls' = [i \in Procs |-> 0]
    /\ delays' = [i \in Procs |-> << >>]
    /\ outcomes' = [i \in Procs |-> << >>]
    /\ UNCHANGED <<store>>

\* POST after `await request.json()`: the `in` tests, schema.parse, and, for
\* a body that passes, the call of withRetry up to its first await
PostHandles ==
    /\ phase = "received"
    /\ request.method = "POST"
    /\ LET v == Validate(request)
       IN  IF v.result = "valid"
           THEN /\ handed' = [table |-> v.table, data |-> v.data]
                /\ Call("A", Budget(NoArgument))
                /\ UNCHANGED <<lastError, returned, delays, outcomes>>
                /\ phase' = "awaiting"
                /\ UNCHANGED <<response, callsAtResponse>>
           ELSE /\ response' = IF v.result = "invalid" THEN ValidationFailed
                               ELSE InternalServerError
                /\ phase' = "responded"
                /\ callsAtResponse' = calls
                /\ UNCHANGED <<retryVars, handed>>
    /\ UNCHANGED <<request, store, served, rowsAtArrival>>

\* prisma.<table>.create writes the row and resolves with it
CreateResolves ==
    /\ request.method = "POST"
    /\ SequenceRuns(phase)
    /\ OperationResolves("A", Row(handed.data))
    /\ store' = Insert(handed.table, handed.data)
    /\ UNCHANGED <<request, phase, response, handed, served, rowsAtArrival,
                   callsAtResponse>>

\* prisma.<table>.create rejects with e, the row written or not
CreateRejects(e, applied) ==
    /\ request.method = "POST"
    /\ SequenceRuns(phase)
    /\ OperationRejects("A", e)
    /\ store' = IF applied THEN Insert(handed.table, handed.data) ELSE store
    /\ UNCHANGED <<request, phase, response, handed, served, rowsAtArrival,
                   callsAtResponse>>

\* the timer of a delay of invocation i fires
HandlerDelayElapses(i) ==
    /\ SequenceRuns(phase)
    /\ DelayElapses(i)
    /\ UNCHANGED apiVars

\* POST after `await withRetry(...)`: 201 with the id, or the catch block
PostResponds ==
    /\ phase = "awaiting"
    /\ request.method = "POST"
    /\ Done("A")
    /\ response' = IF pc["A"] = "succeeded"
                   THEN Created(handed.table, returned["A"])
                   ELSE ErrorResponse(thrown["A"])
    /\ phase' = "responded"
    /\ callsAtResponse' = calls
    /\ UNCHANGED <<retryVars, request, handed, store, served, rowsAtArrival>>

\* GET: the first element of the array given to Promise.all
GetCallsFirst ==
    /\ phase = "received"
    /\ request.method = "GET"
    /\ Call("A", Budget(NoArgument))
    /\ phase' = IF request.route = "combined" THEN "calling" ELSE "awaiting"
    /\ UNCHANGED <<request, response, handed, store, served, rowsAtArrival,
                   callsAtResponse>>

\* GET of the combined route: the second element of the array
GetCallsSecond ==
    /\ phase = "calling"
    /\ Call("B", Budget(NoArgument))
    /\ phase' = "awaiting"
    /\ UNCHANGED <<request, response, handed, store, served, rowsAtArrival,
                   callsAtResponse>>

\* prisma.<table>.findMany resolves with the rows, newest first
FindManyResolves(i) ==
    /\ request.method = "GET"
    /\ SequenceRuns(phase)
    /\ OperationResolves(i, FindMany(TableOf(i)))
    /\ UNCHANGED apiVars

FindManyRejects(i, e) ==
    /\ request.method = "GET"
    /\ SequenceRuns(phase)
    /\ OperationRejects(i, e)
    /\ UNCHANGED apiVars

\* the promise of the first invocation alone decides
PromiseFirstOnly(S) ==
    IF pc["A"] = "failed" THEN "rejected"
    ELSE IF pc["A"] = "succeeded" THEN "fulfilled"
    ELSE "pending"

\* Promise.all over the invocations S
PromiseAll(S) ==
    IF \E i \in S : pc[i] = "failed" THEN "rejected"
    ELSE IF \A i \in S : pc[i] = "succeeded" THEN "fulfilled"
    ELSE "pending"

\* GET after `await Promise.all([...])`: it rejects as soon as one of the
\* invocations has rejected, and resolves when all have resolved.  The UI
\* route responds with the list itself, kept in uiFeedback here.
GetResponds ==
    /\ phase = "awaiting"
    /\ request.method = "GET"
    /\ \/ /\ PromiseAll(Used(request)) = "rejected"
          /\ \E i \in Used(request) :
                /\ pc[i] = "failed"
                /\ response' = ErrorResponse(thrown[i])
       \/ /\ PromiseAll(Used(request)) = "fulfilled"
          /\ response' =
               [NoResponse EXCEPT !.status = 200,
                   !.uiFeedback = returned["A"],
                   !.serviceFeedback = IF "B" \in Used(request)
                                       THEN returned["B"] ELSE << >>]
    /\ phase' = "responded"
    /\ callsAtResponse' = calls
    /\ UNCHANGED <<retryVars, request, handed, store, served, rowsAtArrival>>

NextApi ==
    /\ \/ \E req \in Requests : Arrive(req)
       \/ PostHandles
       \/ CreateResolves
       \/ \E f \in CreateFailures : CreateRejects(f[1], f[2])
       \/ PostResponds
       \/ GetCallsFirst
       \/ GetCallsSecond
       \/ \E i \in Procs : FindManyResolves(i)
       \/ \E i \in Procs, e \in StoreFailures : FindManyRejects(i, e)
       \/ GetResponds
       \/ \E i \in Procs : HandlerDelayElapses(i)
    /\ UNCHANGED <<startedInDelay, pageVars>>

SpecApi == Init /\ [][NextApi]_vars

----------------------------------------------------------------------------
(* The vocabulary of the claims about the handlers *)

\* the body holds both keys by which the combined route tells service
\* feedback
HasBothKeys(body) == body["serviceDate"] # Absent /\ body["easeOfOrdering"] # Absent

\* the schema the route parses the body with
SchemaFor(req) ==
    IF req.route = "combined" /\ HasBothKeys(req.body)
    THEN serviceFeedbackSchema ELSE feedbackSchema

\* schema.parse(body) is reached and throws a ZodError
FailsValidation(req) ==
    \/ req.kind = "array"
    \/ req.kind = "primitive" /\ req.route = "ui"
    \/ req.kind = "object" /\ ~Passes(SchemaFor(req), req.body)

PassesValidation(req) == req.kind = "object" /\ Passes(SchemaFor(req), req.body)

\* the rows the request has added to a table
Added(table) == Len(store[table]) - rowsAtArrival[table]

ErrorTexts == { outcomes["A"][k].error.message : k \in 1..Len(outcomes["A"]) }

\* C14: for a POST whose body passes validation the response is 201 with the
\* id the create returned exactly when the invocation succeeded, and 500
\* 'Internal server error' exactly when it failed, on a terminal failure or
\* on the last attempt; no response is given before, and the text of the
\* store's error is not in the response
C14_ResponseFollowsOutcome ==
    (request.method = "POST" /\ PassesValidation(request)) =>
        /\ phase = "awaiting" => response = NoResponse
        /\ phase = "responded" =>
              /\ Done("A")
              /\ response.status = 201 <=> pc["A"] = "succeeded"
              /\ response.status = 500 <=> pc["A"] = "failed"
              /\ pc["A"] = "succeeded" =>
                    /\ response.id = returned["A"].id
                    /\ response.error = ""
              /\ pc["A"] = "failed" =>
                    /\ response.error = "Internal server error"
                    /\ response.message = ""
                    /\ response.error \notin ErrorTexts

\* 500 after three attempts that all ended with 'Connection terminated'
C14_Witness ==
    /\ request.method = "POST"
    /\ phase = "responded"
    /\ response.status = 500
    /\ calls["A"] = 3
    /\ thrown["A"] = Err("Connection terminated")

\* C16: no handler passes maxRetries, so the budget of each of its
\* invocations is 3: one POST invokes create at most 3 times, one GET invokes
\* each findMany at most 3 times
C16_DefaultBudgetIsThree ==
    \A i \in Procs :
        /\ calls[i] <= 3
        /\ pc[i] # "idle" => maxRetries[i] = 3

\* a GET of the combined route whose two findMany have each been invoked 3
\* times
C16_Witness ==
    /\ request.method = "GET"
    /\ calls["A"] = 3
    /\ calls["B"] = 3
    /\ pc["A"] = "failed"
    /\ pc["B"] = "failed"

\* what schema.parse gave for the body of the request
ValidatedData == Parsed(SchemaFor(request), request.body)

\* C17 as stated: each field of the record handed to create equals the field
\* of the validated data
C17_TransferredAsIs ==
    handed.table # "none" =>
        \A f \in DOMAIN handed.data : handed.data[f] = ValidatedData[f]

\* the fields the handler passes without `||`
PassedPlainly(table) ==
    IF table = "service" THEN ServiceFields \ ServiceOptionalStrings ELSE {}

\* what the handler puts for an optional field whose value is absent or empty
Replacement(f) ==
    CASE f = "feedbackType" -> Str("OTHER")
      [] f = "title" -> Str("Untitled Feedback")
      [] f = "description" -> Str("")
      [] f = "tags" -> Arr(<< >>)
      [] OTHER -> Null

\* C17, amended: the record handed to create has the keys of the validated
\* data; a field equals the validated value when that value is present and
\* not empty, or when it is a required service field; an absent or empty
\* optional value is replaced by null, and in UI feedback feedbackType by
\* 'OTHER', title by 'Untitled Feedback', description by '' and tags by []
C17_TransferredUnlessEmpty ==
    handed.table # "none" =>
        /\ DOMAIN handed.data = DOMAIN ValidatedData
        /\ \A f \in DOMAIN handed.data :
              handed.data[f] =
                  IF Truthy(ValidatedData[f]) \/ f \in PassedPlainly(handed.table)
                  THEN ValidatedData[f]
                  ELSE Replacement(f)

\* the service form's body: the name is handed as it came, the company left
\* empty is handed as null
C17_Witness ==
    /\ handed.table = "service"
    /\ request.body["customerName"] = Str("Abebe")
    /\ handed.data["customerName"] = Str("Abebe")
    /\ request.body["companyName"] = Str("")
    /\ handed.data["companyName"] = Null

\* C18: in the combined route a body goes to the service schema and table
\* exactly when it holds both keys serviceDate and easeOfOrdering; any other
\* body, one with a single one of the keys included, is parsed with the UI
\* schema and, passing it, is handed to uIFeedback.create; a request adds
\* rows to the table it was handed to only, never to both
C18_ServiceIffBothKeys ==
    (request.method = "POST" /\ request.route = "combined"
        /\ request.kind = "object" /\ phase \in {"awaiting", "responded"}) =>
        /\ handed.table =
              IF HasBothKeys(request.body)
              THEN IF Passes(serviceFeedbackSchema, request.body)
                   THEN "service" ELSE "none"
              ELSE IF Passes(feedbackSchema, request.body)
                   THEN "ui" ELSE "none"
        /\ handed.table = "none" => response.status = 400
        /\ \A t \in {"ui", "service"} : t # handed.table => Added(t) = 0

\* a body with serviceDate and without easeOfOrdering has been stored as a UI
\* feedback row and answered 201
C18_Witness ==
    /\ request.method = "POST"
    /\ request.route = "combined"
    /\ request.body["serviceDate"] # Absent
    /\ request.body["easeOfOrdering"] = Absent
    /\ phase = "responded"
    /\ response.status = 201
    /\ Added("ui") = 1
    /\ Added("service") = 0

\* the rules of a service feedback record
ServiceRules(d) ==
    /\ d["serviceDate"].t = "str" /\ d["serviceDate"].s # ""
    /\ d["serviceType"].t = "arr" /\ Len(d["serviceType"].a) >= 1
    /\ \A f \in RatingFields : d[f].t = "num" /\ d[f].n \in 1..5

\* C19: every row of the service feedback table has a serviceDate that is not
\* empty, at least one serviceType and its 13 ratings within 1..5; a request
\* for service feedback that breaks one of these leaves both tables as they
\* were, and no request that breaks one adds a service feedback row
C19_ServiceRecordsValid ==
    /\ \A k \in 1..Len(store.service) : ServiceRules(store.service[k].data)
    /\ (request.method = "POST" /\ request.kind = "object"
            /\ ~ServiceRules(request.body)) =>
          /\ Added("service") = 0
          /\ (request.route = "combined" /\ HasBothKeys(request.body)) =>
                Added("ui") = 0

\* the table holds a row with ratings 1 and 5, and a later request with a
\* rating of 0 has been answered without a change of the tables
C19_Witness ==
    /\ Len(store.service) = 1
    /\ store.service[1].data["easeOfOrdering"] = Num(1)
    /\ store.service[1].data["responsiveness"] = Num(5)
    /\ request.method = "POST"
    /\ HasBothKeys(request.body)
    /\ \E f \in RatingFields : request.body[f] = Num(0)
    /\ phase = "responded"
    /\ Added("service") = 0
    /\ Added("ui") = 0

\* C20: one POST request adds at most one row to the tables, whatever the
\* outcomes of its attempts, the attempts that write the row and then fail
\* with 'Connection terminated' included
C20_AtMostOneRecord ==
    request.method = "POST" => Added("ui") + Added("service") <= 1

\* the invocation is between its call and its end
Running(i) == pc[i] \in {"attempting", "delaying"}

\* the handler is at an await or has returned: continuations may run
HandlerSuspended == phase \in {"awaiting", "responded"}

\* C12: a started invocation cannot be aborted by its caller.  While it runs,
\* the handler waiting or having responded, its pending store call can settle
\* and its delay can elapse; it leaves Attempting and the delays only to
\* Succeeded or Failed, by the settling of one of its own attempts.  So in
\* GET, after one invocation failed and 500 was returned, the other goes on
\* with its attempts and delays
C12_NotAbortable ==
    /\ [](\A i \in Procs :
            HandlerSuspended =>
                /\ pc[i] = "attempting" =>
                      ENABLED (CreateResolves \/ FindManyResolves(i))
                /\ pc[i] = "delaying" => ENABLED HandlerDelayElapses(i))
    /\ [][\A i \in Procs :
            Running(i) =>
                \/ Running(i)'
                \/ /\ Done(i)'
                   /\ Len(outcomes'[i]) = Len(outcomes[i]) + 1]_vars

\* GET answered 500 when the first findMany had failed and the second had
\* been invoked once; the second has since waited twice and succeeded on its
\* third attempt
C12_Witness ==
    /\ request.method = "GET"
    /\ phase = "responded"
    /\ response.status = 500
    /\ pc["A"] = "failed"
    /\ callsAtResponse["B"] = 1
    /\ calls["B"] = 3
    /\ Len(delays["B"]) = 2
    /\ pc["B"] = "succeeded"

----------------------------------------------------------------------------
\* the failure value carries no message text: a thrown value that is not an
\* Error (null, a primitive string), or an Error whose message is empty
NoMessageText(e) == e.kind \in {"null", "string", "undefined"} \/ e.message = ""

\* C21: a failure value without message text is fatal at once, at any
\* attempt: it is the last outcome of its invocation, which has then failed
\* with no delay after that attempt
C21_NoMessageIsFatal ==
    \A i \in Procs : \A k \in 1..Len(outcomes[i]) :
        (~outcomes[i][k].ok /\ NoMessageText(outcomes[i][k].error)) =>
            /\ k = Len(outcomes[i])
            /\ pc[i] = "failed"
            /\ calls[i] = k
            /\ Len(delays[i]) = k - 1

\* a primitive string 'Connection refused' thrown at attempt 2 of 4, after
\* one retried failure: failed with 2 invocations and the 1 delay before
C21_Witness ==
    /\ pc[Solo] = "failed"
    /\ maxRetries[Solo] = 4
    /\ calls[Solo] = 2
    /\ delays[Solo] = <<1000>>
    /\ LastOutcome(Solo).error = ThrownString("Connection refused")

RECURSIVE Sum(_)
Sum(s) == IF s = << >> THEN 0 ELSE Head(s) + Sum(Tail(s))

C28_ZeroBudget ==
    \A i \in Procs :
        pc[i] # "idle" =>
            /\ maxRetries[i] <= 0 =>
                  /\ pc[i] = "failed"
                  /\ calls[i] = 0
                  /\ outcomes[i] = << >>
                  /\ thrown[i] = Undefined
            /\ maxRetries[i] >= 1 => calls[i] >= 1

\* withRetry(operation, 0) has rejected without an invocation
C28_Witness ==
    /\ pc[Solo] = "failed"
    /\ maxRetries[Solo] = 0
    /\ calls[Solo] = 0
    /\ thrown[Solo] = Undefined

----------------------------------------------------------------------------
\* C22: the combined GET answers 200 with the two lists exactly when both
\* invocations have succeeded; when one of them has failed it answers 500
\* 'Internal server error' with no list, whatever the other one does; before
\* that it has not answered
C22_AllOrNothing ==
    (request.method = "GET" /\ request.route = "combined") =>
        /\ phase \in {"received", "calling", "awaiting"} => response = NoResponse
        /\ phase = "responded" =>
              /\ response.status \in {200, 500}
              /\ response.status = 200 <=>
                    (pc["A"] = "succeeded" /\ pc["B"] = "succeeded")
              /\ response.status = 500 <=> (\E i \in Procs : pc[i] = "failed")
              /\ response.status = 200 =>
                    /\ response.uiFeedback = returned["A"]
                    /\ response.serviceFeedback = returned["B"]
                    /\ response.error = ""
              /\ response.status = 500 =>
                    /\ response.error = "Internal server error"
                    /\ response.uiFeedback = << >>
                    /\ response.serviceFeedback = << >>

\* uIFeedback.findMany has resolved with a row, serviceFeedback.findMany has
\* failed: 500, and the row is not in the response
C22_Witness ==
    /\ request.method = "GET"
    /\ request.route = "combined"
    /\ phase = "responded"
    /\ pc["A"] = "succeeded"
    /\ pc["B"] = "failed"
    /\ Len(returned["A"]) >= 1
    /\ response.status = 500
    /\ response.uiFeedback = << >>

\* the tables a route's GET reads
TablesRead(route) == IF route = "combined" THEN {"ui", "service"} ELSE {"ui"}

\* the list of a table in the response
ListOf(t) == IF t = "ui" THEN response.uiFeedback ELSE response.serviceFeedback

----------------------------------------------------------------------------
\* the values the form validated, taken back from the body it posted
FormValues(body) == [f \in ServiceFields |-> body[f]]

\* the body is one the service form sends: values its schema accepts, the
\* submissionDate added, no other key
ClientAccepts(body) ==
    /\ Passes(clientServiceFeedbackSchema, FormValues(body))
    /\ body["submissionDate"].t = "str"
    /\ \A f \in BodyKeys \ (ServiceFields \cup {"submissionDate"}) : body[f] = Absent

\* C23: a body the service form sends is taken as service feedback by the
\* combined POST and passes the server's service schema: its data is handed
\* to serviceFeedback.create, it is not answered 400 and adds no UI row
C23_ClientValidIsServerValid ==
    (request.method = "POST" /\ request.route = "combined"
        /\ request.kind = "object" /\ ClientAccepts(request.body)
        /\ phase \in {"awaiting", "responded"}) =>
        /\ handed.table = "service"
        /\ response.status # 400
        /\ Added("ui") = 0

\* the form with only its required inputs filled has been stored as service
\* feedback and answered 201
C23_Witness ==
    /\ request.method = "POST"
    /\ request.route = "combined"
    /\ request.body = ServiceFormRequiredOnlyBody
    /\ ClientAccepts(request.body)
    /\ phase = "responded"
    /\ response.status = 201
    /\ Added("service") = 1
    /\ store.service[Len(store.service)].data["followUpRequested"] = Bool(FALSE)

----------------------------------------------------------------------------
(* The admin page.  A fetched record keeps the fields the filters read;    *)
(* createdAt is counted in hours, UTC, from the start of day 0, and a      *)
(* date input gives a day.  Effects run before the next event is handled.  *)

MaxFetches == 2

Timezones == { -5, 0, 3 }

HoursPerDay == 24

AdminRow(id, name, company, contact, types, followUp, overall, created) ==
    [id |-> id, customerName |-> name, companyName |-> company,
     contactInfo |-> contact, serviceType |-> types,
     followUpRequested |-> followUp, overallSatisfaction |-> overall,
     createdAt |-> created]

\* what GET gave as serviceFeedback: newest first
FetchedRows ==
    << AdminRow(5, Str("Abebe"), Null, Null, <<"fuel-delivery">>, TRUE, 5, 75),
       AdminRow(4, Null, Str("Acme Fuel"), Null, <<"other">>, FALSE, 5, 70),
       AdminRow(3, Str("Sara"), Null, Str("abe@acme.example"),
                <<"fuel-delivery", "other">>, FALSE, 3, 60),
       AdminRow(2, Null, Null, Null, <<"lubricant-supply">>, TRUE, 5, 50),
       AdminRow(1, Str("Kebede"), Str("ACME"), Null, <<"fuel-delivery">>, TRUE, 4, 46) >>

\* `data.serviceFeedback || []` of the responses with response.ok
FetchedLists == { FetchedRows, << >> }

\* the messages setError is given: response.ok false, fetch rejected, a
\* thrown value that is not an Error
FetchErrors == { "Failed to fetch feedback", "Failed to fetch", "An error occurred" }

\* the values the inputs of the sidebar give
FilterValues(k) ==
    CASE k = "search" -> { "", "abe", "ACME" }
      [] k = "serviceType" -> { "", "fuel-delivery" }
      [] k = "followUp" -> { "", "true", "false" }
      [] k = "overallSatisfaction" -> { "", "5" }
      [] k = "dateFrom" -> { "", "1970-01-03" }
      [] k = "dateTo" -> { "", "1970-01-03" }

\* new Date("1970-01-0d"): the start of that day, UTC, in hours
DateOf(s) ==
    CASE s = "1970-01-02" -> 1 * HoursPerDay
      [] s = "1970-01-03" -> 2 * HoursPerDay
      [] s = "1970-01-04" -> 3 * HoursPerDay

\* parseInt of the values of the satisfaction select
ParseInt(s) ==
    CASE s = "1" -> 1 [] s = "2" -> 2 [] s = "3" -> 3 [] s = "4" -> 4 [] s = "5" -> 5

LowerChar(c) ==
    CASE c = "A" -> "a" [] c = "B" -> "b" [] c = "C" -> "c" [] c = "D" -> "d"
      [] c = "E" -> "e" [] c = "F" -> "f" [] c = "G" -> "g" [] c = "H" -> "h"
      [] c = "I" -> "i" [] c = "J" -> "j" [] c = "K" -> "k" [] c = "L" -> "l"
      [] c = "M" -> "m" [] c = "N" -> "n" [] c = "O" -> "o" [] c = "P" -> "p"
      [] c = "Q" -> "q" [] c = "R" -> "r" [] c = "S" -> "s" [] c = "T" -> "t"
      [] c = "U" -> "u" [] c = "V" -> "v" [] c = "W" -> "w" [] c = "X" -> "x"
      [] c = "Y" -> "y" [] c = "Z" -> "z" [] OTHER -> c

RECURSIVE ToLowerCase(_)
ToLowerCase(x) ==
    IF x = "" THEN ""
    ELSE LowerChar(SubSeq(x, 1, 1)) \o ToLowerCase(SubSeq(x, 2, Len(x)))

\* `feedback.x && feedback.x.toLowerCase().includes(searchLower)`
FieldHas(j, searchLower) == Truthy(j) /\ Includes(ToLowerCase(j.s), searchLower)

SearchTest(feedback, search) ==
    LET searchLower == ToLowerCase(search)
    IN  \/ FieldHas(feedback.customerName, searchLower)
        \/ FieldHas(feedback.companyName, searchLower)
        \/ FieldHas(feedback.contactInfo, searchLower)

\* feedback.serviceType.includes(filters.serviceType)
ServiceTypeTest(feedback, type) ==
    \E q \in 1..Len(feedback.serviceType) : feedback.serviceType[q] = type

FollowUpTest(feedback, followUp) ==
    feedback.followUpRequested = (followUp = "true")

SatisfactionTest(feedback, value) ==
    feedback.overallSatisfaction = ParseInt(value)

DateFromTest(feedback, dateFrom) == feedback.createdAt >= DateOf(dateFrom)

\* toDate.setHours(23, 59, 59, 999): the last instant of the local day that
\* holds the UTC start of dateTo; in whole hours, the last hour of that day
EndOfLocalDay(t, tz) ==
    (((t + tz) \div HoursPerDay) + 1) * HoursPerDay - tz - 1

DateToTest(feedback, dateTo, tz) ==
    feedback.createdAt <= EndOfLocalDay(DateOf(dateTo), tz)

\* the test of filter k on a record
FilterTest(k, feedback, f, tz) ==
    CASE k = "search" -> SearchTest(feedback, f[k])
      [] k = "serviceType" -> ServiceTypeTest(feedback, f[k])
      [] k = "followUp" -> FollowUpTest(feedback, f[k])
      [] k = "overallSatisfaction" -> SatisfactionTest(feedback, f[k])
      [] k = "dateFrom" -> DateFromTest(feedback, f[k])
      [] k = "dateTo" -> DateToTest(feedback, f[k], tz)

\* `if (filters.k && filters.k !== "all") filtered = filtered.filter(...)`
Step(filtered, k, f, tz) ==
    IF f[k] # "" /\ f[k] # "all"
    THEN SelectSeq(filtered, LAMBDA feedback : FilterTest(k, feedback, f, tz))
    ELSE filtered

\* each filter applied to the fetched list, not to the list filtered so far
StepFromAll(filtered, all, k, f, tz) ==
    IF f[k] # "" /\ f[k] # "all"
    THEN SelectSeq(all, LAMBDA feedback : FilterTest(k, feedback, f, tz))
    ELSE filtered

ApplyFiltersLastWins(all, f, tz) ==
    StepFromAll(StepFromAll(StepFromAll(StepFromAll(StepFromAll(StepFromAll(
        all, all, "search", f, tz), all, "serviceType", f, tz), all, "followUp", f, tz),
        all, "overallSatisfaction", f, tz), all, "dateFrom", f, tz), all, "dateTo", f, tz)

\* applyFilters: what it gives to setFilteredFeedbacks
ApplyFilters(all, f, tz) ==
    Step(Step(Step(Step(Step(Step(
        all, "search", f, tz), "serviceType", f, tz), "followUp", f, tz),
        "overallSatisfaction", f, tz), "dateFrom", f, tz), "dateTo", f, tz)

hasActiveFilters == \E k \in FilterKeys : filters[k] # ""

ViewListFirst(l, e) == IF l THEN "loading" ELSE "list"

\* the early returns of the render: loading, then error, then the list
View(l, e) == IF l THEN "loading" ELSE IF e # NoError THEN "error" ELSE "list"

ErrorCleared(e) == NoError

\* the try block of fetchFeedbacks leaves `error` as it is
ErrorOnSuccess(e) == e

\* [...new Set(feedbackData.flatMap(f => f.serviceType).filter(Boolean))], as
\* the set of its elements
UniqueServiceTypes(list) ==
    UNION { { list[i].serviceType[q] : q \in 1..Len(list[i].serviceType) } :
              i \in 1..Len(list) } \ {""}

\* the call of fetchFeedbacks up to its first await
StartFetch ==
    /\ inFlight' = inFlight + 1
    /\ fetchesStarted' = fetchesStarted + 1

\* first render and its two effects: fetchFeedbacks(), applyFilters()
Mount ==
    /\ ~mounted
    /\ mounted' = TRUE
    /\ timezone' \in Timezones
    /\ StartFetch
    /\ filteredFeedbacks' = ApplyFilters(feedbacks, filters, timezone')
    /\ effectPending' = FALSE
    /\ UNCHANGED <<feedbacks, loading, error, filters, uniqueServiceTypes>>
    /\ UNCHANGED <<retryVars, startedInDelay, apiVars>>

\* fetchFeedbacks from the response on, response.ok true
FetchSucceeds(feedbackData) ==
    /\ mounted /\ ~effectPending /\ inFlight > 0
    /\ inFlight' = inFlight - 1
    /\ feedbacks' = feedbackData
    /\ uniqueServiceTypes' = UniqueServiceTypes(feedbackData)
    /\ error' = ErrorOnSuccess(error)
    /\ loading' = FALSE
    /\ effectPending' = TRUE
    /\ UNCHANGED <<filteredFeedbacks, filters, mounted, fetchesStarted, timezone>>
    /\ UNCHANGED <<retryVars, startedInDelay, apiVars>>

\* fetchFeedbacks from the catch on
FetchFails(message) ==
    /\ mounted /\ ~effectPending /\ inFlight > 0
    /\ inFlight' = inFlight - 1
    /\ error' = <<message>>
    /\ loading' = FALSE
    /\ UNCHANGED <<feedbacks, filteredFeedbacks, filters, uniqueServiceTypes,
                   mounted, fetchesStarted, effectPending, timezone>>
    /\ UNCHANGED <<retryVars, startedInDelay, apiVars>>

\* the button of the error view
TryAgain ==
    /\ mounted /\ ~effectPending
    /\ View(loading, error) = "error"
    /\ fetchesStarted < MaxFetches
    /\ StartFetch
    /\ UNCHANGED <<feedbacks, filteredFeedbacks, loading, error, filters,
                   uniqueServiceTypes, mounted, effectPending, timezone>>
    /\ UNCHANGED <<retryVars, startedInDelay, apiVars>>

\* an input of the sidebar changes
HandleFilterChange(key, value) ==
    /\ mounted /\ ~effectPending
    /\ View(loading, error) = "list"
    /\ value # filters[key]
    /\ filters' = [filters EXCEPT ![key] = value]
    /\ effectPending' = TRUE
    /\ UNCHANGED <<feedbacks, filteredFeedbacks, loading, error,
                   uniqueServiceTypes, mounted, inFlight, fetchesStarted, timezone>>
    /\ UNCHANGED <<retryVars, startedInDelay, apiVars>>

\* the buttons shown while hasActiveFilters
ClearFilters ==
    /\ mounted /\ ~effectPending
    /\ View(loading, error) = "list"
    /\ hasActiveFilters
    /\ filters' = NoFilters
    /\ effectPending' = TRUE
    /\ UNCHANGED <<feedbacks, filteredFeedbacks, loading, error,
                   uniqueServiceTypes, mounted, inFlight, fetchesStarted, timezone>>
    /\ UNCHANGED <<retryVars, startedInDelay, apiVars>>

\* the effect on [feedbacks, filters]: applyFilters()
FilterEffect ==
    /\ effectPending
    /\ filteredFeedbacks' = ApplyFilters(feedbacks, filters, timezone)
    /\ effectPending' = FALSE
    /\ UNCHANGED <<feedbacks, loading, error, filters, uniqueServiceTypes,
                   mounted, inFlight, fetchesStarted, timezone>>
    /\ UNCHANGED <<retryVars, startedInDelay, apiVars>>

NextAdmin ==
    \/ Mount
    \/ \E feedbackData \in FetchedLists : FetchSucceeds(feedbackData)
    \/ \E message \in FetchErrors : FetchFails(message)
    \/ TryAgain
    \/ \E key \in FilterKeys : \E value \in FilterValues(key) :
          HandleFilterChange(key, value)
    \/ ClearFilters
    \/ FilterEffect

SpecAdmin == Init /\ [][NextAdmin]_vars

----------------------------------------------------------------------------
(* Claims about the admin page                                             *)

\* the filters with a value
ActiveFilters == { k \in FilterKeys : filters[k] # "" }

\* the record passes the test of every filter with a value
SatisfiesAll(feedback) ==
    \A k \in ActiveFilters : FilterTest(k, feedback, filters, timezone)

\* C25: once the filter effect has run, the displayed list is the fetched
\* list restricted, in its order, to exactly the records that satisfy every
\* non-empty filter at once; with all filters empty (as clearFilters leaves
\* them) it is the whole fetched list and hasActiveFilters is false.
C25_DisplayedIsConjunction ==
    (mounted /\ ~effectPending) =>
        /\ filteredFeedbacks = SelectSeq(feedbacks, SatisfiesAll)
        /\ filters = NoFilters =>
              /\ filteredFeedbacks = feedbacks
              /\ ~hasActiveFilters

\* two filters or more have a value, a record passes one of them and fails
\* another, and a proper, non-empty part of the fetched list is displayed
C25_Witness ==
    /\ mounted /\ ~effectPending
    /\ View(loading, error) = "list"
    /\ Cardinality(ActiveFilters) >= 2
    /\ Len(filteredFeedbacks) > 0
    /\ Len(filteredFeedbacks) < Len(feedbacks)
    /\ \E i \in 1..Len(feedbacks) : \E k1, k2 \in ActiveFilters :
          /\ FilterTest(k1, feedbacks[i], filters, timezone)
          /\ ~FilterTest(k2, feedbacks[i], filters, timezone)

\* C26: once a fetch has failed the error is never cleared and the page
\* shows the error view from then on, also after a later fetch has succeeded
\* and stored the list.
C26_ErrorNeverLeft ==
    /\ [](error # NoError => View(loading, error) = "error")
    /\ [][error # NoError => error' # NoError]_vars

\* a fetch failed, Try Again was pressed, the second fetch succeeded and
\* stored a list with records; the page shows the error view
C26_Witness ==
    /\ error # NoError
    /\ fetchesStarted >= 2
    /\ inFlight = 0
    /\ feedbacks = FetchedRows
    /\ View(loading, error) = "error"

====
